---- MODULE Spec2Model ----
(***************************************************************************)
(* Model of the Realm users migration script (src/src/index.ts,            *)
(* src/src/atlas.ts).  One run of main(): validation of the environment    *)
(* and of the flags, login, the two cursor-paginated fetch loops, the      *)
(* transforms and the export (file or console).                            *)
(*                                                                         *)
(* Strings the program inspects (paths, the date flag, environment         *)
(* values) are sequences of one-character strings, so that the regular     *)
(* expression, path.basename, path.join, path.dirname and the Date parser  *)
(* are computed character by character.  JavaScript's undefined is the     *)
(* one-element sequence Undefined, which no character sequence equals.     *)
(* The flags --verbose and --batchSize only feed log lines and are left    *)
(* out; the console is modelled for the dry-run summary only.              *)
(***************************************************************************)
EXTENDS Integers, Sequences, FiniteSets, TLC

VARIABLES env, argv, pc, exitCode, error, outputFile, dryRun, apiToken,
          requests, responses, resolved, fetched, users, pendingUsers,
          userData, fsCalls, written, console

vars == <<env, argv, pc, exitCode, error, outputFile, dryRun, apiToken,
          requests, responses, resolved, fetched, users, pendingUsers,
          userData, fsCalls, written, console>>

-----------------------------------------------------------------------------
(* Values *)

Undefined == <<"<undefined>">>

\* JavaScript truthiness of a string | undefined value.
Truthy(s) == s # Undefined /\ s # <<>>

\* A JavaScript number: NaN or an integer.
NaN == [nan |-> TRUE, val |-> 0]

Num(n) == [nan |-> FALSE, val |-> n]

\* Largest number of requests of one pagination loop that the remote answers;
\* a further request stays in flight for ever (a hung call).
MaxRequests == 3

-----------------------------------------------------------------------------
(* Sequence helpers *)

RECURSIVE Flatten(_)
Flatten(pages) ==
  IF pages = <<>> THEN <<>> ELSE Head(pages) \o Flatten(Tail(pages))

Last(s) == s[Len(s)]

-----------------------------------------------------------------------------
(* path.basename, path.join, path.normalize, path.dirname (POSIX) *)

Slash == "/"

RECURSIVE StripTrailingSlashes(_)
StripTrailingSlashes(p) ==
  IF p # <<>> /\ Last(p) = Slash
    THEN StripTrailingSlashes(SubSeq(p, 1, Len(p) - 1))
    ELSE p

RECURSIVE AfterLastSlash(_)
AfterLastSlash(p) ==
  IF p = <<>> \/ Last(p) = Slash
    THEN <<>>
    ELSE Append(AfterLastSlash(SubSeq(p, 1, Len(p) - 1)), Last(p))

\* path.basename(p): trailing separators are ignored, then the characters
\* after the last separator are returned ('' when there are none).
basename(p) == AfterLastSlash(StripTrailingSlashes(p))

\* The segments of p between separators, empty segments included.
RECURSIVE Segments(_)
Segments(p) ==
  IF p = <<>> THEN << <<>> >>
  ELSE LET rest == Segments(Tail(p))
       IN IF Head(p) = Slash
            THEN << <<>> >> \o rest
            ELSE << <<Head(p)>> \o Head(rest) >> \o Tail(rest)

Dot == <<".">>

DotDot == <<".", ".">>

\* normalizeString of a relative path: '.' and empty segments are dropped,
\* '..' removes the segment before it when there is one to remove and is
\* kept otherwise.
RECURSIVE NormalizeSegments(_, _)
NormalizeSegments(segs, acc) ==
  IF segs = <<>> THEN acc
  ELSE LET s == Head(segs)
       IN IF s = <<>> \/ s = Dot
            THEN NormalizeSegments(Tail(segs), acc)
          ELSE IF s = DotDot
            THEN IF acc # <<>> /\ Last(acc) # DotDot
                   THEN NormalizeSegments(Tail(segs), SubSeq(acc, 1, Len(acc) - 1))
                   ELSE NormalizeSegments(Tail(segs), Append(acc, s))
          ELSE NormalizeSegments(Tail(segs), Append(acc, s))

RECURSIVE JoinSegments(_)
JoinSegments(segs) ==
  IF segs = <<>> THEN <<>>
  ELSE IF Len(segs) = 1 THEN Head(segs)
  ELSE Head(segs) \o <<Slash>> \o JoinSegments(Tail(segs))

\* path.normalize of a relative path without trailing separator.
normalize(p) ==
  LET n == JoinSegments(NormalizeSegments(Segments(p), <<>>))
  IN IF n = <<>> THEN Dot ELSE n

OutputDir == <<"o", "u", "t", "p", "u", "t">>

\* path.join('output', b): empty arguments are skipped, the rest is joined
\* with the separator and normalized.
joinOutput(b) ==
  IF b = <<>> THEN normalize(OutputDir)
  ELSE normalize(OutputDir \o <<Slash>> \o b)

\* dirname that hands back the path itself, so that mkdir creates a directory
\* where the file is to go.
dirnameOfNothing(p) == p

\* path.dirname(p) of a relative path.
dirname(p) ==
  LET q == StripTrailingSlashes(p)
      d == StripTrailingSlashes(SubSeq(q, 1, Len(q) - Len(AfterLastSlash(q))))
  IN IF d = <<>> THEN Dot ELSE d

\* index.ts:67-69
SanitizedOutputFile(raw) ==
  IF Truthy(raw) THEN joinOutput(basename(raw)) ELSE Undefined

-----------------------------------------------------------------------------
(* The pendingUserDate check and new Date(s).getTime() / 1000 *)

Digits == <<"0", "1", "2", "3", "4", "5", "6", "7", "8", "9">>

IsDigit(c) == \E i \in 1..10 : Digits[i] = c

DigitVal(c) == (CHOOSE i \in 1..10 : Digits[i] = c) - 1

\* /^\d{4}-\d{2}-\d{2}$/.test(s)
MatchesDateFormat(s) ==
  /\ Len(s) = 10
  /\ \A i \in {1, 2, 3, 4, 6, 7, 9, 10} : IsDigit(s[i])
  /\ s[5] = "-"
  /\ s[8] = "-"

Year(s) == DigitVal(s[1]) * 1000 + DigitVal(s[2]) * 100 + DigitVal(s[3]) * 10 + DigitVal(s[4])

Month(s) == DigitVal(s[6]) * 10 + DigitVal(s[7])

Day(s) == DigitVal(s[9]) * 10 + DigitVal(s[10])

\* Days from 1970-01-01 to day d of month m of year y (proleptic Gregorian);
\* d beyond the month's length runs on into the following month, as MakeDay
\* of the date parser does.
DaysFromCivil(y, m, d) ==
  LET yy  == IF m <= 2 THEN y - 1 ELSE y
      era == yy \div 400
      yoe == yy - era * 400
      mp  == IF m > 2 THEN m - 3 ELSE m + 9
      doy == (153 * mp + 2) \div 5 + d - 1
      doe == yoe * 365 + yoe \div 4 - yoe \div 100 + doy
  IN era * 146097 + doe - 719468

\* new Date(s).getTime() / 1000 for the strings the run can pass: a
\* date-only ISO string is UTC midnight; a month outside 1..12 or a day
\* outside 1..31, and any string that is no date (the empty string), is
\* an Invalid Date, whose time is NaN.
DateToEpochSeconds(s) ==
  IF ~MatchesDateFormat(s) THEN NaN
  ELSE IF Month(s) \notin 1..12 \/ Day(s) \notin 1..31 THEN NaN
  ELSE Num(DaysFromCivil(Year(s), Month(s), Day(s)) * 86400)

-----------------------------------------------------------------------------
(* Inputs of a run: the environment, the flags, what the remote returns *)

Id == <<"i", "d">>

\* process.env.X: unset, set to the empty string, or set.
EnvValues == {Undefined, <<>>, Id}

EnvNames == {"USERNAME", "API_KEY", "GROUP_ID", "APP_ID"}

DefaultDate == <<"2", "0", "2", "0", "-", "1", "2", "-", "0", "1">>

DatePool ==
  { DefaultDate,
    <<"1", "9", "7", "0", "-", "0", "1", "-", "0", "1">>,
    <<"2", "0", "2", "0", "-", "1", "3", "-", "0", "1">>,
    <<"2", "0", "2", "0", "-", "1", "2", "-", "0", "0">>,
    <<"2", "0", "2", "0", "-", "0", "2", "-", "3", "0">>,
    <<>>,
    <<"2", "0", "2", "0", "-", "1", "-", "0", "1">>,
    <<"2", "0", "2", "0", "/", "1", "2", "/", "0", "1">>,
    <<"2", "0", "2", "0", "-", "1", "2", "-", "0", "1", "1">> }

\* --outputFile: not given, empty, or a path over the characters / . a b
PathPool ==
  { Undefined,
    <<>>,
    <<"a">>,
    <<"a", "/", ".", ".", "/", "b">>,
    <<".", ".">>,
    <<"a", "/", ".", ".">>,
    <<"a", "/">>,
    <<"/">>,
    <<"/", "a">>,
    <<".">>,
    <<".", ".", "/", "a">>,
    <<"a", "/", "b">> }

\* Raw user records of the list-users endpoint; the last one has no data
\* object, so that user.data.email throws.
RawUser(id, hasData) ==
  [_id |-> id,
   data |-> [present |-> hasData, email |-> IF hasData THEN "u@x.com" ELSE ""],
   creation_date |-> 1600000000 + id]

UserPages ==
  { <<>>,
    <<RawUser(1, TRUE), RawUser(2, TRUE)>>,
    <<RawUser(0, TRUE)>>,
    <<RawUser(3, FALSE)>> }

\* Raw pending-user records; the last one has no login identifier, so that
\* user.login_ids[0].id throws.
RawPending(id, logins) == [_id |-> id, login_ids |-> logins]

LoginId(s) == [id_type |-> "email", id |-> s]

PendingPages ==
  { <<>>,
    <<RawPending(3, <<LoginId("p@x.com")>>), RawPending(4, <<LoginId("q@x.com"), LoginId("r@x.com")>>)>>,
    <<RawPending(0, <<LoginId("z@x.com")>>)>>,
    <<RawPending(5, <<>>)>> }

Tokens == {"tokenA", "tokenB"}

Argvs == [dryRun : BOOLEAN, outputFile : PathPool, pendingUserDate : DatePool]

-----------------------------------------------------------------------------
(* main(): configuration and validation, index.ts:52-102 *)

\* index.ts:72
EffectiveDryRun(explicitDryRun, outFile) == explicitDryRun \/ outFile = Undefined

\* ValidationError without the check of APP_ID.
ValidationErrorWithoutAppId(e, a) ==
  IF ~Truthy(e["USERNAME"]) THEN "username"
  ELSE IF ~Truthy(e["API_KEY"]) THEN "apiKey"
  ELSE IF ~Truthy(e["GROUP_ID"]) THEN "groupId"
  ELSE IF Truthy(a.pendingUserDate) /\ ~MatchesDateFormat(a.pendingUserDate)
    THEN "pendingUserDate"
  ELSE "none"

\* index.ts:75-102: the first check that throws, or "none".
ValidationError(e, a) ==
  IF ~Truthy(e["USERNAME"]) THEN "username"
  ELSE IF ~Truthy(e["API_KEY"]) THEN "apiKey"
  ELSE IF ~Truthy(e["GROUP_ID"]) THEN "groupId"
  ELSE IF ~Truthy(e["APP_ID"]) THEN "appId"
  ELSE IF Truthy(a.pendingUserDate) /\ ~MatchesDateFormat(a.pendingUserDate)
    THEN "pendingUserDate"
  ELSE "none"

\* index.ts:185
ExitCodeOnError == 1

\* Fail with the error logged and the process left to end normally.
FailWithoutExitCode(what) ==
  /\ pc' = "exited"
  /\ exitCode' = 0
  /\ error' = what

\* index.ts:183-186: the catch block of main.
Fail(what) ==
  /\ pc' = "exited"
  /\ exitCode' = ExitCodeOnError
  /\ error' = what

-----------------------------------------------------------------------------
(* atlas.ts: requests *)

\* atlas.ts:67, 161: the default of lastId
NoCursor == 0

\* atlas.ts:24-36
LoginRequest ==
  [kind |-> "login", hasAfter |-> FALSE, after |-> NoCursor, token |-> ""]

\* ListRequest with the API key's place taken by no token at all.
ListRequestWithoutToken(kind, accessToken, lastId) ==
  [kind |-> kind,
   hasAfter |-> lastId # NoCursor,
   after |-> lastId,
   token |-> ""]

\* atlas.ts:70-79 and 164-172: the URL's query and the bearer header of a
\* list request.
ListRequest(kind, accessToken, lastId) ==
  [kind |-> kind,
   hasAfter |-> lastId # NoCursor,
   after |-> lastId,
   token |-> accessToken]

\* LoopContinues that takes a page of one record for the last page.
LoopContinuesOnFullPage(page) == Len(page) >= 2

\* atlas.ts:117, 217: the loop condition on the page just returned.
LoopContinues(page) == Len(page) # 0

\* Concat with the new page put in front.
ConcatInFront(acc, page) == page \o acc

\* atlas.ts:115, 126, 215, 231
Concat(acc, page) == acc \o page

\* atlas.ts:131-136
ActiveUser(user) ==
  [id |-> user._id,
   email |-> user.data.email,
   createdAt |-> user.creation_date,
   status |-> "active"]

MapUsers(raw) == [i \in 1..Len(raw) |-> ActiveUser(raw[i])]

\* user.data.email throws when data is undefined.
UserMapThrows(raw) == \E i \in 1..Len(raw) : ~raw[i].data.present

\* atlas.ts:238-245
PendingUser(user, createdAtTimestamp) ==
  [id |-> user._id,
   email |-> user.login_ids[1].id,
   status |-> "pending",
   createdAt |-> createdAtTimestamp]

\* user.login_ids[0].id throws when there is no first login identifier.
PendingMapThrows(raw) == \E i \in 1..Len(raw) : raw[i].login_ids = <<>>

MapPending(raw, date) ==
  LET createdAtTimestamp == DateToEpochSeconds(date)
  IN [i \in 1..Len(raw) |-> PendingUser(raw[i], createdAtTimestamp)]

\* Requests of one kind issued so far.
CountKind(kind) == Cardinality({i \in 1..Len(requests) : requests[i].kind = kind})

OkResponse(tok, page) == [ok |-> TRUE, token |-> tok, page |-> page]

ErrResponse == [ok |-> FALSE, token |-> "", page |-> <<>>]

-----------------------------------------------------------------------------
(* main(): the export, index.ts:131-180 *)

\* UserData whose totalUsers counts the pending users too.
UserDataCountingAll(us, ps) ==
  [metadata |-> [groupId |-> env["GROUP_ID"],
                 appId |-> env["APP_ID"],
                 totalUsers |-> Len(us) + Len(ps),
                 totalPendingUsers |-> Len(ps),
                 pendingUserDate |-> argv.pendingUserDate],
   users |-> us,
   pendingUsers |-> ps]

\* index.ts:132-143 (exportDate, the wall clock, is left out)
UserData(us, ps) ==
  [metadata |-> [groupId |-> env["GROUP_ID"],
                 appId |-> env["APP_ID"],
                 totalUsers |-> Len(us),
                 totalPendingUsers |-> Len(ps),
                 pendingUserDate |-> argv.pendingUserDate],
   users |-> us,
   pendingUsers |-> ps]

\* ShouldWrite that forgets the dry-run flag.
ShouldWriteIgnoringDryRun(outFile, dry) == outFile # Undefined

\* index.ts:146
ShouldWrite(outFile, dry) == outFile # Undefined /\ ~dry

\* index.ts:158-173
Summary(data) ==
  [metadata |-> data.metadata,
   sampleUser |-> IF Len(data.users) > 0 THEN <<data.users[1]>> ELSE <<>>,
   samplePendingUser |->
     IF Len(data.pendingUsers) > 0 THEN <<data.pendingUsers[1]>> ELSE <<>>]

\* fs.writeFile on the working directory itself can only fail (EISDIR).
CanWrite(path) == path # Dot

-----------------------------------------------------------------------------
(* The run *)

Init ==
  /\ env \in [EnvNames -> EnvValues]
  /\ argv \in Argvs
  /\ pc = "start"
  /\ exitCode = -1
  /\ error = "none"
  /\ outputFile = Undefined
  /\ dryRun = FALSE
  /\ apiToken = ""
  /\ requests = <<>>
  /\ responses = <<>>
  /\ resolved = <<>>
  /\ fetched = <<>>
  /\ users = <<>>
  /\ pendingUsers = <<>>
  /\ userData = <<>>
  /\ fsCalls = <<>>
  /\ written = <<>>
  /\ console = <<>>

\* index.ts:47-118: main up to its first await, the login request.
Start ==
  /\ pc = "start"
  /\ outputFile' = SanitizedOutputFile(argv.outputFile)
  /\ dryRun' = EffectiveDryRun(argv.dryRun, outputFile')
  /\ IF ValidationError(env, argv) # "none"
       THEN /\ Fail(ValidationError(env, argv))
            /\ UNCHANGED requests
       ELSE /\ requests' = Append(requests, LoginRequest)
            /\ pc' = "await_login"
            /\ UNCHANGED <<exitCode, error>>
  /\ UNCHANGED <<env, argv, apiToken, responses, resolved, fetched, users, userData,
                 pendingUsers, fsCalls, written, console>>

\* atlas.ts:24-48, index.ts:118-123, atlas.ts:110-114: the login call
\* settles; on success getUsers issues its first request.
LoginResponse ==
  /\ pc = "await_login"
  /\ \/ /\ responses' = Append(responses, ErrResponse)
        /\ Fail("login")
        /\ UNCHANGED <<apiToken, requests, resolved, fetched>>
     \/ \E tok \in Tokens :
        /\ responses' = Append(responses, OkResponse(tok, <<>>))
        /\ apiToken' = tok
        /\ resolved' = Append(resolved, "getAPIToken")
        /\ fetched' = <<>>
        /\ requests' = Append(requests, ListRequest("users", tok, NoCursor))
        /\ pc' = "await_users"
        /\ UNCHANGED <<exitCode, error>>
  /\ UNCHANGED <<env, argv, outputFile, dryRun, users, pendingUsers, userData, fsCalls,
                 written, console>>

\* atlas.ts:74-91, 115-142, index.ts:124-128, atlas.ts:206-214: a list-users
\* request settles; the loop goes on, or getUsers maps and returns and
\* getPendingUsers issues its first request.
UsersResponse ==
  /\ pc = "await_users"
  /\ CountKind("users") <= MaxRequests
  /\ \/ /\ responses' = Append(responses, ErrResponse)
        /\ Fail("users")
        /\ UNCHANGED <<requests, resolved, fetched, users>>
     \/ \E page \in UserPages :
        LET all == Concat(fetched, page)
        IN /\ responses' = Append(responses, OkResponse("", page))
           /\ IF LoopContinues(page)
                THEN /\ fetched' = all
                     /\ requests' =
                          Append(requests, ListRequest("users", apiToken, Last(page)._id))
                     /\ UNCHANGED <<pc, exitCode, error, resolved, users>>
                ELSE IF UserMapThrows(all)
                  THEN /\ Fail("transformUsers")
                       /\ fetched' = all
                       /\ UNCHANGED <<requests, resolved, users>>
                  ELSE /\ users' = MapUsers(all)
                       /\ resolved' = Append(resolved, "getUsers")
                       /\ fetched' = <<>>
                       /\ requests' =
                            Append(requests, ListRequest("pending", apiToken, NoCursor))
                       /\ pc' = "await_pending"
                       /\ UNCHANGED <<exitCode, error>>
  /\ UNCHANGED <<env, argv, outputFile, dryRun, apiToken, pendingUsers, userData, fsCalls,
                 written, console>>

\* atlas.ts:168-184, 215-251, index.ts:129-182: a list-pending-users request
\* settles; the loop goes on, or getPendingUsers maps and returns and main
\* either starts the export (mkdir) or prints the summary and ends.
PendingResponse ==
  /\ pc = "await_pending"
  /\ CountKind("pending") <= MaxRequests
  /\ \/ /\ responses' = Append(responses, ErrResponse)
        /\ Fail("pending")
        /\ UNCHANGED <<requests, resolved, fetched, pendingUsers, userData, fsCalls, console>>
     \/ \E page \in PendingPages :
        LET all == Concat(fetched, page)
        IN /\ responses' = Append(responses, OkResponse("", page))
           /\ IF LoopContinues(page)
                THEN /\ fetched' = all
                     /\ requests' =
                          Append(requests, ListRequest("pending", apiToken, Last(page)._id))
                     /\ UNCHANGED <<pc, exitCode, error, resolved, pendingUsers,
                                    userData, fsCalls, console>>
                ELSE IF PendingMapThrows(all)
                  THEN /\ Fail("transformPending")
                       /\ fetched' = all
                       /\ UNCHANGED <<requests, resolved, pendingUsers, userData, fsCalls, console>>
                  ELSE /\ pendingUsers' = MapPending(all, argv.pendingUserDate)
                       /\ resolved' = Append(resolved, "getPendingUsers")
                       /\ fetched' = <<>>
                       /\ userData' = <<UserData(users, pendingUsers')>>
                       /\ UNCHANGED requests
                       /\ IF ShouldWrite(outputFile, dryRun)
                            THEN /\ fsCalls' =
                                      Append(fsCalls, [op |-> "mkdir", path |-> dirname(outputFile)])
                                 /\ pc' = "await_mkdir"
                                 /\ UNCHANGED <<exitCode, error, console>>
                            ELSE /\ console' =
                                      Append(console, Summary(userData'[1]))
                                 /\ pc' = "exited"
                                 /\ exitCode' = 0
                                 /\ UNCHANGED <<error, fsCalls>>
  /\ UNCHANGED <<env, argv, outputFile, dryRun, apiToken, users, written>>

\* index.ts:151-154: mkdir settles; on success writeFile is called.
MkdirResult ==
  /\ pc = "await_mkdir"
  /\ \/ /\ Fail("mkdir")
        /\ UNCHANGED <<fsCalls, resolved>>
     \/ /\ resolved' = Append(resolved, "mkdir")
        /\ fsCalls' = Append(fsCalls, [op |-> "writeFile", path |-> outputFile])
        /\ pc' = "await_write"
        /\ UNCHANGED <<exitCode, error>>
  /\ UNCHANGED <<env, argv, outputFile, dryRun, apiToken, requests, responses,
                 fetched, users, pendingUsers, userData, written, console>>

\* index.ts:154-155, 182: writeFile settles.
WriteResult ==
  /\ pc = "await_write"
  /\ \/ /\ Fail("writeFile")
        /\ UNCHANGED <<resolved, written>>
     \/ /\ CanWrite(outputFile)
        /\ resolved' = Append(resolved, "writeFile")
        /\ written' =
             Append(written, [path |-> outputFile, content |-> userData[1]])
        /\ pc' = "exited"
        /\ exitCode' = 0
        /\ UNCHANGED error
  /\ UNCHANGED <<env, argv, outputFile, dryRun, apiToken, requests, responses,
                 fetched, users, pendingUsers, userData, fsCalls, console>>

Next ==
  \/ Start
  \/ LoginResponse
  \/ UsersResponse
  \/ PendingResponse
  \/ MkdirResult
  \/ WriteResult

Spec == Init /\ [][Next]_vars

-----------------------------------------------------------------------------
(* What the properties below read off a state *)

MissingCredential == \E n \in EnvNames : ~Truthy(env[n])

Resolved(name) == \E i \in 1..Len(resolved) : resolved[i] = name

ListKinds == {"users", "pending"}

\* The pages the remote returned to the requests of one kind, in request order.
RECURSIVE PagesUpTo(_, _)
PagesUpTo(kind, n) ==
  IF n = 0 THEN <<>>
  ELSE IF requests[n].kind = kind /\ responses[n].ok
    THEN Append(PagesUpTo(kind, n - 1), responses[n].page)
    ELSE PagesUpTo(kind, n - 1)

PagesOf(kind) == PagesUpTo(kind, Len(responses))

RECURSIVE SumLen(_)
SumLen(pages) == IF pages = <<>> THEN 0 ELSE Len(Head(pages)) + SumLen(Tail(pages))

NonEmptyCount(pages) == Cardinality({i \in 1..Len(pages) : pages[i] # <<>>})

EndedWith(code) == pc = "exited" /\ exitCode = code

DaysInMonth(y, m) ==
  IF m = 2
    THEN IF y % 4 = 0 /\ (y % 100 # 0 \/ y % 400 = 0) THEN 29 ELSE 28
    ELSE IF m \in {4, 6, 9, 11} THEN 30 ELSE 31

IsCalendarDate(s) ==
  /\ MatchesDateFormat(s)
  /\ Month(s) \in 1..12
  /\ Day(s) \in 1..DaysInMonth(Year(s), Month(s))

\* The awaited calls of main that have resolved when the named step fails.
ResolvedBefore(err) ==
  IF err \in {"username", "apiKey", "groupId", "appId", "pendingUserDate", "login"}
    THEN <<>>
  ELSE IF err \in {"users", "transformUsers"} THEN <<"getAPIToken">>
  ELSE IF err \in {"pending", "transformPending"} THEN <<"getAPIToken", "getUsers">>
  ELSE IF err = "mkdir" THEN <<"getAPIToken", "getUsers", "getPendingUsers">>
  ELSE <<"getAPIToken", "getUsers", "getPendingUsers", "mkdir">>

-----------------------------------------------------------------------------
(* C1 *)

\* C1: in every run in which one of USERNAME, API_KEY, GROUP_ID, APP_ID is
\* unset or empty, no HTTP request is ever issued and, once main has run, the
\* process has ended with exit code 1, whatever the flags are.
C1_MissingCredentialFailsBeforeHttp ==
  MissingCredential =>
    /\ requests = <<>>
    /\ pc # "start" => EndedWith(1)

C1_Witness ==
  /\ MissingCredential
  /\ Truthy(env["USERNAME"]) /\ Truthy(env["API_KEY"]) /\ Truthy(env["GROUP_ID"])
  /\ EndedWith(1)
  /\ Truthy(argv.outputFile) /\ ~argv.dryRun
  /\ argv.pendingUserDate = DefaultDate

-----------------------------------------------------------------------------
(* C2 *)

\* C2: every pendingUserDate that does not match dddd-dd-dd, the empty string
\* included, ends the run with exit code 1 before any HTTP request is issued.
C2_MalformedDateRejectedBeforeHttp ==
  ~MatchesDateFormat(argv.pendingUserDate) =>
    /\ requests = <<>>
    /\ pc # "start" => EndedWith(1)

\* What the code does instead: a non-empty pendingUserDate that does not match
\* is rejected before any HTTP request; the empty string is not checked.
NonEmptyMalformedDateRejectedBeforeHttp ==
  (argv.pendingUserDate # <<>> /\ ~MatchesDateFormat(argv.pendingUserDate)) =>
    /\ requests = <<>>
    /\ pc # "start" => EndedWith(1)

-----------------------------------------------------------------------------
(* C3 *)

\* C3: when getUsers (getPendingUsers) has returned, its result has as many
\* elements as the pages the remote returned hold records, and its i-th
\* element is derived from the i-th record in response order; an empty first
\* page gives the empty list.
C3_ResultIsConcatenationInResponseOrder ==
  /\ Resolved("getUsers") =>
       LET raw == Flatten(PagesOf("users"))
       IN /\ Len(users) = SumLen(PagesOf("users"))
          /\ \A i \in 1..Len(users) :
               /\ users[i].id = raw[i]._id
               /\ users[i].email = raw[i].data.email
               /\ users[i].createdAt = raw[i].creation_date
  /\ Resolved("getPendingUsers") =>
       LET raw == Flatten(PagesOf("pending"))
       IN /\ Len(pendingUsers) = SumLen(PagesOf("pending"))
          /\ \A i \in 1..Len(pendingUsers) :
               /\ pendingUsers[i].id = raw[i]._id
               /\ pendingUsers[i].email = raw[i].login_ids[1].id

C3_Witness ==
  /\ Resolved("getPendingUsers")
  /\ NonEmptyCount(PagesOf("users")) = 2
  /\ NonEmptyCount(PagesOf("pending")) = 2
  /\ Len(users) = 3
  /\ users[1].id = 0
  /\ Len(pendingUsers) = 3
  /\ pendingUsers[3].id = 0

-----------------------------------------------------------------------------
(* C4 *)

\* C4: in each pagination loop the first request carries no 'after'
\* parameter and every later request carries after = the _id of the last
\* record of the page returned to the request before it, whatever that _id
\* is (0 included).
C4_CursorIsLastIdOfPreviousPage ==
  \A i \in 1..Len(requests) :
    requests[i].kind \in ListKinds =>
      IF requests[i - 1].kind # requests[i].kind
        THEN ~requests[i].hasAfter
        ELSE /\ requests[i].hasAfter
             /\ requests[i].after = Last(responses[i - 1].page)._id

\* What the code does instead: the cursor follows the last _id unless that
\* _id is 0, and then the request carries no 'after' parameter.
CursorIsLastIdUnlessZero ==
  \A i \in 1..Len(requests) :
    requests[i].kind \in ListKinds =>
      IF requests[i - 1].kind # requests[i].kind
        THEN ~requests[i].hasAfter
        ELSE LET lastId == Last(responses[i - 1].page)._id
             IN /\ requests[i].after = lastId
                /\ requests[i].hasAfter <=> lastId # 0

-----------------------------------------------------------------------------
(* C5 *)

\* C5: for every pendingUserDate that matches dddd-dd-dd, every record
\* getPendingUsers returns has status "pending" and one and the same
\* createdAt, which is a number of epoch seconds, and for a calendar date it
\* is that date's UTC midnight; this also for matching strings that are no
\* calendar date.
C5_CreatedAtIsUtcMidnightOfDate ==
  (MatchesDateFormat(argv.pendingUserDate) /\ Resolved("getPendingUsers")) =>
    \A i \in 1..Len(pendingUsers) :
      /\ pendingUsers[i].status = "pending"
      /\ pendingUsers[i].createdAt = pendingUsers[1].createdAt
      /\ ~pendingUsers[i].createdAt.nan
      /\ IsCalendarDate(argv.pendingUserDate) =>
           pendingUsers[i].createdAt.val =
             DaysFromCivil(Year(argv.pendingUserDate), Month(argv.pendingUserDate),
                           Day(argv.pendingUserDate)) * 86400

\* What the code does instead: all records carry status "pending" and one
\* createdAt, which is the UTC midnight of a calendar date and NaN for a month
\* outside 01..12 or a day outside 01..31 (and for the empty string).
CreatedAtIsUtcMidnightOfCalendarDate ==
  Resolved("getPendingUsers") =>
    \A i \in 1..Len(pendingUsers) :
      /\ pendingUsers[i].status = "pending"
      /\ pendingUsers[i].createdAt = pendingUsers[1].createdAt
      /\ IsCalendarDate(argv.pendingUserDate) =>
           pendingUsers[i].createdAt =
             Num(DaysFromCivil(Year(argv.pendingUserDate), Month(argv.pendingUserDate),
                               Day(argv.pendingUserDate)) * 86400)
      /\ (~MatchesDateFormat(argv.pendingUserDate)
            \/ Month(argv.pendingUserDate) \notin 1..12
            \/ Day(argv.pendingUserDate) \notin 1..31) =>
           pendingUsers[i].createdAt.nan
      /\ argv.pendingUserDate = DefaultDate => pendingUsers[i].createdAt.val = 1606780800

-----------------------------------------------------------------------------
(* C6 *)

\* C6: in every run where --outputFile is not given or empty, or --dryRun is
\* true, neither fs.mkdir nor fs.writeFile is ever called, whatever the remote
\* returns; a run that ends well has printed the metadata and at most the
\* first record of each set.
C6_NoFileWithoutOutputFileOrInDryRun ==
  (~Truthy(argv.outputFile) \/ argv.dryRun) =>
    /\ fsCalls = <<>>
    /\ written = <<>>
    /\ EndedWith(0) =>
         /\ Len(console) = 1
         /\ console[1].metadata.totalUsers = Len(users)
         /\ console[1].metadata.totalPendingUsers = Len(pendingUsers)
         /\ console[1].metadata.pendingUserDate = argv.pendingUserDate
         /\ console[1].sampleUser = SubSeq(users, 1, IF users = <<>> THEN 0 ELSE 1)
         /\ console[1].samplePendingUser =
              SubSeq(pendingUsers, 1, IF pendingUsers = <<>> THEN 0 ELSE 1)

C6_Witness ==
  /\ Truthy(argv.outputFile)
  /\ argv.dryRun
  /\ EndedWith(0)
  /\ Len(users) >= 2
  /\ Len(pendingUsers) >= 2

-----------------------------------------------------------------------------
(* C7 *)

\* C7: for every non-empty --outputFile, the path passed to fs.writeFile has
\* no '..' segment and is output/<one file name>: never 'output' itself, '.'
\* or a path outside 'output'.
C7_WritePathStrictlyInsideOutput ==
  \A i \in 1..Len(fsCalls) :
    fsCalls[i].op = "writeFile" =>
      LET segs == Segments(fsCalls[i].path)
      IN /\ \A k \in 1..Len(segs) : segs[k] # DotDot
         /\ Len(segs) = 2
         /\ segs[1] = OutputDir
         /\ segs[2] \notin {<<>>, Dot}

\* What the code does instead: the path is output/<name> when the last
\* segment of --outputFile is a file name; it is '.' when that segment is
\* '..', and 'output' when it is '.' or when there is none.
WritePathInsideOutputForFileNames ==
  \A i \in 1..Len(fsCalls) :
    fsCalls[i].op = "writeFile" =>
      LET name == basename(argv.outputFile)
      IN IF name = DotDot THEN fsCalls[i].path = Dot
         ELSE IF name \in {<<>>, Dot} THEN fsCalls[i].path = OutputDir
         ELSE fsCalls[i].path = OutputDir \o <<Slash>> \o name

-----------------------------------------------------------------------------
(* C8 *)

\* C8: if a step of the run fails (validation, login, a page request, a
\* transform, mkdir or writeFile), the process ends with exit code 1, the
\* failed call is not retried, no later step is executed and no file has been
\* written; a written file holds every fetched record; a run in which no step
\* fails ends with exit code 0.
C8_AnyFailureEndsRunWithOneElseZero ==
  /\ (pc # "start" /\ ValidationError(env, argv) # "none") => error # "none"
  /\ (\E i \in 1..Len(responses) : ~responses[i].ok) => error # "none"
  /\ (pc = "exited" /\ fsCalls # <<>> /\ written = <<>>) => error # "none"
  /\ error # "none" =>
       /\ EndedWith(1)
       /\ written = <<>>
       /\ Len(requests) = Len(responses)
       /\ \A i \in 1..(Len(responses) - 1) : responses[i].ok
       /\ resolved = ResolvedBefore(error)
  /\ (pc = "exited" /\ error = "none") => exitCode = 0
  /\ \A i \in 1..Len(written) :
       /\ Len(written[i].content.users) = SumLen(PagesOf("users"))
       /\ Len(written[i].content.pendingUsers) = SumLen(PagesOf("pending"))

C8_Witness ==
  /\ error = "pending"
  /\ EndedWith(1)
  /\ Len(users) >= 2
  /\ NonEmptyCount(PagesOf("pending")) >= 1
  /\ ShouldWrite(outputFile, dryRun)

-----------------------------------------------------------------------------
(* C9 *)

\* C9: the network calls of a run are totally ordered with at most one in
\* flight: the one login call first, then the list-users requests, each
\* issued after the response to the one before it, then the
\* list-pending-users requests, the first of them only after the list-users
\* loop received its empty page; every list request carries the token the
\* login call returned.
C9_NetworkCallsSequential ==
  /\ Len(requests) - Len(responses) \in {0, 1}
  /\ \A i \in 1..Len(requests) : (requests[i].kind = "login") <=> (i = 1)
  /\ \A i \in 2..Len(requests) :
       /\ responses[i - 1].ok
       /\ responses[1].token \in Tokens
       /\ requests[i].token = responses[1].token
       /\ requests[i].kind = "users" => requests[i - 1].kind \in {"login", "users"}
       /\ requests[i].kind = "pending" =>
            \/ requests[i - 1].kind = "pending"
            \/ /\ requests[i - 1].kind = "users"
               /\ responses[i - 1].page = <<>>

C9_Witness ==
  /\ CountKind("users") = 3
  /\ CountKind("pending") = 3
  /\ Len(requests) = Len(responses) + 1
  /\ requests[Len(requests)].token = "tokenB"

-----------------------------------------------------------------------------
(* C10 *)

\* C10: each pagination loop stops at the first empty page and issues no
\* request after it; after k non-empty pages and an empty one the loop has
\* made exactly k+1 requests; after a non-empty page the next request is
\* always issued, so the loop ends only on an empty page.
C10_LoopStopsAtFirstEmptyPage ==
  /\ \A i \in 1..Len(responses) :
       (requests[i].kind \in ListKinds /\ responses[i].ok) =>
         IF responses[i].page # <<>>
           THEN /\ Len(requests) > i
                /\ requests[i + 1].kind = requests[i].kind
           ELSE \A j \in (i + 1)..Len(requests) : requests[j].kind # requests[i].kind
  /\ \A kind \in ListKinds :
       Resolved(IF kind = "users" THEN "getUsers" ELSE "getPendingUsers") =>
         /\ CountKind(kind) = NonEmptyCount(PagesOf(kind)) + 1
         /\ Last(PagesOf(kind)) = <<>>

C10_Witness ==
  /\ Resolved("getPendingUsers")
  /\ CountKind("users") = 3
  /\ CountKind("pending") = 2

-----------------------------------------------------------------------------
(* C11 *)

\* C11: in every export envelope main builds, metadata.totalUsers is the
\* length of users, metadata.totalPendingUsers the length of pendingUsers and
\* metadata.pendingUserDate the date flag as given; every element of users has
\* status "active" and the _id, data.email and creation_date of its raw
\* record; every element of pendingUsers has status "pending", the _id of its
\* raw record and the id of that record's first login identifier as email.
C11_EnvelopeCountsAndProjections ==
  \A k \in 1..Len(userData) :
    LET data == userData[k]
        rawUsers == Flatten(PagesOf("users"))
        rawPending == Flatten(PagesOf("pending"))
    IN /\ data.metadata.totalUsers = Len(data.users)
       /\ data.metadata.totalPendingUsers = Len(data.pendingUsers)
       /\ data.metadata.pendingUserDate = argv.pendingUserDate
       /\ Len(data.users) = Len(rawUsers)
       /\ \A i \in 1..Len(data.users) :
            /\ data.users[i].status = "active"
            /\ data.users[i].id = rawUsers[i]._id
            /\ data.users[i].email = rawUsers[i].data.email
            /\ data.users[i].createdAt = rawUsers[i].creation_date
       /\ Len(data.pendingUsers) = Len(rawPending)
       /\ \A i \in 1..Len(data.pendingUsers) :
            /\ data.pendingUsers[i].status = "pending"
            /\ data.pendingUsers[i].id = rawPending[i]._id
            /\ data.pendingUsers[i].email = rawPending[i].login_ids[1].id

C11_Witness ==
  /\ Len(userData) = 1
  /\ argv.pendingUserDate = DefaultDate
  /\ userData[1].metadata.totalUsers = 2
  /\ userData[1].users[1].id = 1
  /\ userData[1].users[2].id = 2
  /\ userData[1].metadata.totalPendingUsers = 3
  /\ userData[1].pendingUsers[2].id = 4
  /\ userData[1].pendingUsers[2].email = "q@x.com"
  /\ userData[1].pendingUsers[1].createdAt = Num(1606780800)
  /\ written # <<>>

-----------------------------------------------------------------------------
(* C12 *)

WriteCalls == {i \in 1..Len(fsCalls) : fsCalls[i].op = "writeFile"}

\* A non-empty --outputFile without --dryRun, and validation, login and both
\* pagination loops have succeeded.
ExportRequested ==
  /\ Truthy(argv.outputFile)
  /\ ~argv.dryRun
  /\ Resolved("getUsers")
  /\ Resolved("getPendingUsers")

\* The directory part of a relative path, read off its segments.
DirectoryOf(path) ==
  LET segs == Segments(path)
  IN IF Len(segs) = 1 THEN Dot ELSE JoinSegments(SubSeq(segs, 1, Len(segs) - 1))

\* A writeFile call comes second, after the mkdir of its target's directory
\* has resolved, with both loops finished, nothing in flight, and the
\* envelope of all fetched records as content.
WriteCallIsLastAndComplete(i) ==
  /\ i = 2
  /\ fsCalls[1].op = "mkdir"
  /\ fsCalls[1].path = DirectoryOf(fsCalls[i].path)
  /\ Resolved("mkdir")
  /\ Resolved("getUsers")
  /\ Resolved("getPendingUsers")
  /\ Len(requests) = Len(responses)
  /\ Last(PagesOf("users")) = <<>>
  /\ Last(PagesOf("pending")) = <<>>
  /\ Len(userData) = 1
  /\ Len(userData[1].users) = SumLen(PagesOf("users"))
  /\ Len(userData[1].pendingUsers) = SumLen(PagesOf("pending"))
  /\ \A j \in 1..Len(written) :
       /\ written[j].path = fsCalls[i].path
       /\ written[j].content = userData[1]

\* C12 as stated: every ended run with a non-empty --outputFile, no --dryRun
\* and validation, login and both loops succeeding has made exactly one
\* fs.writeFile call, after both loops and after fs.mkdir of the target's
\* directory, with the complete envelope as content.
C12_ExactlyOneWriteAfterFetches ==
  (ExportRequested /\ pc = "exited") =>
    /\ Cardinality(WriteCalls) = 1
    /\ \A i \in WriteCalls : WriteCallIsLastAndComplete(i)

\* C12 as amended: a run makes at most one fs.writeFile call, and every such
\* call comes after both loops and after the resolved fs.mkdir of the target's
\* directory, with the complete envelope as content, so that no file is
\* written before or between fetches; a run as above makes exactly one such
\* call when fs.mkdir succeeds and none when fs.mkdir fails.
C12_OneWriteAfterFetchesWhenMkdirSucceeds ==
  /\ Cardinality(WriteCalls) <= 1
  /\ \A i \in WriteCalls : WriteCallIsLastAndComplete(i)
  /\ written # <<>> => (Len(written) = 1 /\ WriteCalls # {})
  /\ (ExportRequested /\ Resolved("mkdir")) => Cardinality(WriteCalls) = 1
  /\ (ExportRequested /\ pc = "exited" /\ ~Resolved("mkdir")) =>
       /\ WriteCalls = {}
       /\ error = "mkdir"
       /\ exitCode = 1

C12_Witness ==
  /\ ExportRequested
  /\ EndedWith(0)
  /\ Len(written) = 1
  /\ Len(written[1].content.users) = 3
  /\ Len(written[1].content.pendingUsers) = 3

====
